---- MODULE Spec2Model ----
(***************************************************************************)
(* TenSore::Tensor<T, Rank, A> (src/include/Tensor.hpp) as a state machine. *)
(*                                                                         *)
(* Spec       one caller: construction, assignment, size and version, and  *)
(*            element reads; every member function is one atomic step.     *)
(* SpecStore  one caller: construction, assignment and element stores.     *)
(* SpecIter   one caller: iterators, what invalidates them, their accesses. *)
(* SpecVer    threads on one tensor: invalidate_iterators() statement by    *)
(*            statement, begin()/end(), accesses through an Iterator.       *)
(* SpecLock   threads on two tensors: at() and the assignments, statement   *)
(*            by statement, with the std::shared_mutex of each tensor.      *)
(* SpecWrite  one caller: iterators and element stores, through             *)
(*            operator[], at() and an Iterator.                             *)
(* SpecArith  one caller, one tensor: the iterators' stepping, difference   *)
(*            and comparison operators in fixed-width arithmetic.           *)
(* SpecLife   one caller: destruction, and accesses through iterators of a  *)
(*            destroyed tensor.                                             *)
(* SpecBump   two threads on one tensor: invalidate_iterators() and at().   *)
(* SpecRead   two threads reading one tensor through at(), fairly           *)
(*            scheduled.                                                    *)
(* SpecHold   two threads on one tensor: at() against threads that take    *)
(*            the mutex through mutex(), fairly scheduled.                  *)
(***************************************************************************)
EXTENDS Integers, Sequences, FiniteSets, TLC

(* ------------------------------ bounds -------------------------------- *)

\* Rank template argument: Matrix<T> = Tensor<T, 2>.
Rank == 2

\* Largest extent of one dimension and largest coordinate passed minus one.
MaxDim == 2

\* The single caller does not call invalidate_iterators()/fsize() on a
\* version above this.
MaxVersion == 2

\* Element stores per execution.
MaxWrites == 1

\* Member function calls one thread makes in SpecVer.
MaxCalls == 2

\* Member function calls one thread makes in SpecLock.
MaxLockCalls == 1
\* bits of std::size_t and std::ptrdiff_t in the iterators' index arithmetic
IndexBits == 4

\* the two tensor objects the caller declares
Tensors == {1, 2}
DimVals == 0..MaxDim
Coords == 0..MaxDim
\* T is opaque to Tensor: the zero of value-initialisation and one other value
Values == {0, 1}
DimSeqs == [1..Rank -> DimVals]
CoordSeqs == [1..Rank -> Coords]

\* std::vector with no allocation: default-constructed, resized to 0, moved from.
NoBuf == 0
BufIds == Tensors

Threads == {1, 2, 3}

\* the threads that run in SpecLock
LockThreads == {1, 2}

\* the iterator objects: a local variable of the single caller, of thread 1
\* where there are threads
Iters == {1}
NoIterator == [kind |-> "none", m_TensorPtr |-> 1, m_Index |-> 0, m_Version |-> 0]

(* ------------------------------- state -------------------------------- *)

VARIABLES
  alive,              \* alive[t]: object t has been constructed
  m_DimensionsData,   \* m_DimensionsData[t]: std::array<size_t, Rank>
  m_Data,             \* m_Data[t]: the vector's buffer (a BufId) or NoBuf
  heap,               \* heap[b]: the elements stored in buffer b
  m_Size,             \* m_Size[t]
  m_Version,          \* m_Version[t]
  writes,             \* element stores done so far (bounded by MaxWrites)
  res,                \* what the caller's last call returned or threw
  iters,              \* iters[i]: the iterator object i
  m_Mutex,            \* m_Mutex[t]: who holds the std::shared_mutex of t, and how
  thr,                \* thr[p]: where thread p is in the member function it runs
  hist                \* history: the iterators an invalidate_iterators() call found

vars == <<alive, m_DimensionsData, m_Data, heap, m_Size, m_Version, writes, res,
          iters, m_Mutex, thr, hist>>

\* what a call of the single caller leaves alone
others == <<iters, m_Mutex, thr, hist>>

(* ------------------------------ helpers ------------------------------- *)

RECURSIVE ProductUpTo(_, _)
\* product of d[1..n]: the loop of fsize, and the multiplier of calculateIndex
ProductUpTo(d, n) ==
  IF n = 0 THEN 1 ELSE ProductUpTo(d, n - 1) * d[n]

\* the elements of tensor t's vector
Elems(t) ==
  IF m_Data[t] = NoBuf THEN <<>> ELSE heap[m_Data[t]]

\* the allocator hands out a buffer no live vector owns
FreshBuf ==
  CHOOSE b \in BufIds :
    /\ \A t \in Tensors : m_Data[t] # b
    /\ \A c \in BufIds : (\A t \in Tensors : m_Data[t] # c) => b <= c

\* m_Version++ of invalidate_iterators
invalidate_iterators(version) ==
  version + 1

\* fsize() whose loop stops one dimension early
fsize_skipsLastDimension(d, sz, ver) ==
  LET _retval == ProductUpTo(d, Rank - 1)
  IN  [m_Size    |-> _retval,
       m_Version |-> IF sz # _retval THEN invalidate_iterators(ver) ELSE ver]

\* fsize() that calls invalidate_iterators() whatever the cached size is
fsize_alwaysInvalidates(d, sz, ver) ==
  LET _retval == ProductUpTo(d, Rank)
  IN  [m_Size    |-> _retval,
       m_Version |-> invalidate_iterators(ver)]

\* fsize() on dimensions d with cached size sz and version ver
fsize(d, sz, ver) ==
  LET _retval == ProductUpTo(d, Rank)
  IN  [m_Size    |-> _retval,
       m_Version |-> IF sz # _retval THEN invalidate_iterators(ver) ELSE ver]

RECURSIVE calculateIndexFrom(_, _, _, _, _)
\* the loop of calculateIndex from iteration i (0-based) on
calculateIndexFrom(dims, d, i, index, multiplier) ==
  IF i = Rank THEN [thrown |-> FALSE, index |-> index]
  ELSE IF dims[i + 1] >= d[i + 1] THEN [thrown |-> TRUE, index |-> index]
  ELSE calculateIndexFrom(dims, d, i + 1,
                          index + dims[i + 1] * multiplier,
                          multiplier * d[i + 1])

RECURSIVE calculateIndexFrom_gt(_, _, _, _, _)
\* the loop of calculateIndex with the check "dims[i] > m_DimensionsData[i]"
calculateIndexFrom_gt(dims, d, i, index, multiplier) ==
  IF i = Rank THEN [thrown |-> FALSE, index |-> index]
  ELSE IF dims[i + 1] > d[i + 1] THEN [thrown |-> TRUE, index |-> index]
  ELSE calculateIndexFrom_gt(dims, d, i + 1,
                             index + dims[i + 1] * multiplier,
                             multiplier * d[i + 1])

\* calculateIndex(dims) that lets a coordinate equal to its dimension pass
calculateIndex_gt(dims, d) ==
  calculateIndexFrom_gt(dims, d, 0, 0, 1)

\* calculateIndex(dims) on a tensor with dimensions d
calculateIndex(dims, d) ==
  calculateIndexFrom(dims, d, 0, 0, 1)

NoRes == [op |-> "none", t |-> 0, arg |-> <<>>, outcome |-> "none", value |-> <<>>]

Result(op, t, arg, outcome, value) ==
  [op |-> op, t |-> t, arg |-> arg, outcome |-> outcome, value |-> value]

\* the caller is between two calls: the last call's result has been consumed
Running == res = NoRes

\* a std::shared_mutex nobody holds: shared[p] counts the shared holds of
\* thread p, exclusive is the thread that holds it exclusively, or 0
Unlocked == [shared |-> [p \in Threads |-> 0], exclusive |-> 0]

\* a thread outside every member function, before its first call: the
\* function it is in (op) on which tensor (t) with which other tensor (o) and
\* argument (arg), its locals i, index, multiplier and the version it loaded
Idle ==
  [pc |-> "idle", calls |-> 0, op |-> "none", t |-> 0, o |-> 0, arg |-> <<>>,
   i |-> 0, index |-> 0, multiplier |-> 0, version |-> 0, stale |-> FALSE,
   outcome |-> "none", value |-> <<>>]

\* no invalidate_iterators() call is running and none has returned
NoHist == [pending |-> [p \in Threads |-> {}], returned |-> {}]

(* ------------------------------- Init --------------------------------- *)

Init ==
  /\ alive = [t \in Tensors |-> FALSE]
  /\ m_DimensionsData = [t \in Tensors |-> [i \in 1..Rank |-> 0]]
  /\ m_Data = [t \in Tensors |-> NoBuf]
  /\ heap = [b \in BufIds |-> <<>>]
  /\ m_Size = [t \in Tensors |-> 0]
  /\ m_Version = [t \in Tensors |-> 0]
  /\ writes = 0
  /\ res = NoRes
  /\ iters = [i \in Iters |-> NoIterator]
  /\ m_Mutex = [t \in Tensors |-> Unlocked]
  /\ thr = [p \in Threads |-> Idle]
  /\ hist = NoHist

(* --------------------- construction and assignment -------------------- *)

\* Tensor(std::array<size_t, Rank>&& p_Dimensions)
Construct(t, d) ==
  /\ Running
  /\ ~alive[t]
  /\ LET f == fsize(d, 0, 0)
         b == IF f.m_Size = 0 THEN NoBuf ELSE FreshBuf
     IN  /\ alive' = [alive EXCEPT ![t] = TRUE]
         /\ m_DimensionsData' = [m_DimensionsData EXCEPT ![t] = d]
         /\ m_Size' = [m_Size EXCEPT ![t] = f.m_Size]
         /\ m_Version' = [m_Version EXCEPT ![t] = f.m_Version]
         /\ m_Data' = [m_Data EXCEPT ![t] = b]
         /\ heap' = IF b = NoBuf THEN heap
                    ELSE [heap EXCEPT ![b] = [i \in 1..f.m_Size |-> 0]]
         /\ res' = Result("Tensor", t, d, "ok", <<>>)
  /\ UNCHANGED <<writes, others>>

\* a copy that takes the source's buffer instead of its elements
CopyData_shallow(t, o) ==
  [m_Data |-> [m_Data EXCEPT ![t] = m_Data[o]], heap |-> heap]

\* the buffer and heap after "m_Data = p_Other.m_Data" (vector copy assignment)
CopyData(t, o) ==
  LET src == Elems(o)
      b   == IF src = <<>> THEN NoBuf
             ELSE IF m_Data[t] # NoBuf THEN m_Data[t] ELSE FreshBuf
      old == m_Data[t]
  IN  [m_Data |-> [m_Data EXCEPT ![t] = b],
       heap   |-> [x \in BufIds |->
                     IF x = b THEN src
                     ELSE IF x = old THEN <<>>
                     ELSE heap[x]]]

\* the buffer and heap after "m_Data = std::move(p_Other.m_Data)": the
\* destination releases its buffer and takes the source's, the source is
\* left with none.
MoveData(t, o) ==
  LET old == m_Data[t]
      b   == IF t = o THEN NoBuf ELSE m_Data[o]
  IN  [m_Data |-> [x \in Tensors |->
                     IF x = t THEN b ELSE IF x = o THEN NoBuf ELSE m_Data[x]],
       heap   |-> [x \in BufIds |->
                     IF x = old /\ x # b THEN <<>> ELSE heap[x]]]

\* Tensor(const Tensor& p_Other)
CopyConstruct(t, o) ==
  /\ Running
  /\ ~alive[t] /\ alive[o]
  /\ LET c == CopyData(t, o)
     IN  /\ alive' = [alive EXCEPT ![t] = TRUE]
         /\ m_DimensionsData' = [m_DimensionsData EXCEPT ![t] = m_DimensionsData[o]]
         /\ m_Data' = c.m_Data
         /\ heap' = c.heap
         /\ m_Size' = [m_Size EXCEPT ![t] = 0]
         /\ m_Version' = [m_Version EXCEPT ![t] = 0]
         /\ res' = Result("Tensor(const&)", t, <<o>>, "ok", <<>>)
  /\ UNCHANGED <<writes, others>>

\* Tensor(Tensor&& p_Other)
MoveConstruct(t, o) ==
  /\ Running
  /\ ~alive[t] /\ alive[o]
  /\ LET c == MoveData(t, o)
     IN  /\ alive' = [alive EXCEPT ![t] = TRUE]
         /\ m_DimensionsData' = [m_DimensionsData EXCEPT ![t] = m_DimensionsData[o]]
         /\ m_Data' = c.m_Data
         /\ heap' = c.heap
         /\ m_Size' = [m_Size EXCEPT ![t] = 0]
         /\ m_Version' = [m_Version EXCEPT ![t] = 0]
         /\ res' = Result("Tensor(&&)", t, <<o>>, "ok", <<>>)
  /\ UNCHANGED <<writes, others>>

\* Tensor& operator=(const Tensor& p_Other)
CopyAssign(t, o) ==
  /\ Running
  /\ alive[t] /\ alive[o]
  /\ LET c == CopyData(t, o)
     IN  /\ m_DimensionsData' = [m_DimensionsData EXCEPT ![t] = m_DimensionsData[o]]
         /\ m_Data' = c.m_Data
         /\ heap' = c.heap
         /\ res' = Result("operator=(const&)", t, <<o>>, "ok", <<>>)
  /\ UNCHANGED <<alive, m_Size, m_Version, writes, others>>

\* Tensor& operator=(Tensor&& p_Other)
MoveAssign(t, o) ==
  /\ Running
  /\ alive[t] /\ alive[o]
  /\ LET c == MoveData(t, o)
     IN  /\ m_DimensionsData' = [m_DimensionsData EXCEPT ![t] = m_DimensionsData[o]]
         /\ m_Data' = c.m_Data
         /\ heap' = c.heap
         /\ res' = Result("operator=(&&)", t, <<o>>, "ok", <<>>)
  /\ UNCHANGED <<alive, m_Size, m_Version, writes, others>>

(* --------------------------- size and version ------------------------- *)

\* void invalidate_iterators()
InvalidateIterators(t) ==
  /\ Running
  /\ alive[t]
  /\ m_Version[t] < MaxVersion
  /\ m_Version' = [m_Version EXCEPT ![t] = invalidate_iterators(m_Version[t])]
  /\ res' = Result("invalidate_iterators", t, <<>>, "ok", <<>>)
  /\ UNCHANGED <<alive, m_DimensionsData, m_Data, heap, m_Size, writes, others>>

\* std::size_t fsize()
Fsize(t) ==
  /\ Running
  /\ alive[t]
  /\ m_Version[t] < MaxVersion
  /\ LET f == fsize(m_DimensionsData[t], m_Size[t], m_Version[t])
     IN  /\ m_Size' = [m_Size EXCEPT ![t] = f.m_Size]
         /\ m_Version' = [m_Version EXCEPT ![t] = f.m_Version]
         /\ res' = Result("fsize", t, <<>>, "ok", <<f.m_Size>>)
  /\ UNCHANGED <<alive, m_DimensionsData, m_Data, heap, writes, others>>

\* std::size_t size() const
size(t) ==
  m_Size[t]

(* ---------------------------- element access -------------------------- *)

\* m_Data[n] of std::vector: element n when it exists; otherwise the access
\* is out of the buffer and the build either faults or yields whatever is there
VecSubscript(t, n) ==
  IF n < Len(Elems(t))
  THEN {[outcome |-> "ok", value |-> <<Elems(t)[n + 1]>>]}
  ELSE {[outcome |-> "crash", value |-> <<>>]}
       \cup {[outcome |-> "garbage", value |-> <<v>>] : v \in Values}

\* the bounds check of operator[]
IndexThrows(N, sz) ==
  N > sz

\* T& operator[](std::size_t N) and its const overload
OperatorIndex(t, N) ==
  IF IndexThrows(N, m_Size[t])
  THEN {[outcome |-> "IndexOutOfBounds", value |-> <<>>]}
  ELSE VecSubscript(t, N)

\* T& at(const std::array<std::size_t, Rank>& dims), its const overload and
\* operator()(dims), which forwards to it
at(t, dims) ==
  LET c == calculateIndex(dims, m_DimensionsData[t])
  IN  IF c.thrown
      THEN {[outcome |-> "IndexOutOfBounds", value |-> <<>>]}
      ELSE VecSubscript(t, c.index)

\* the heap after a store of v through the reference m_Data[n]: the element
\* is replaced when it exists; a store out of the buffer that did not fault
\* landed outside every vector's elements
StoreThrough(t, n, v, outcome) ==
  IF outcome = "ok" THEN [heap EXCEPT ![m_Data[t]][n + 1] = v] ELSE heap

\* flat indices tried: every slot of the largest tensor, its size and one more
MaxIndex == ProductUpTo([i \in 1..Rank |-> MaxDim], Rank) + 1
FlatIndices == 0..MaxIndex

\* x = T[N]
ReadIndex(t, N) ==
  /\ Running
  /\ alive[t]
  /\ \E r \in OperatorIndex(t, N) :
       res' = Result("operator[]", t, <<N>>, r.outcome, r.value)
  /\ UNCHANGED <<alive, m_DimensionsData, m_Data, heap, m_Size, m_Version, writes, others>>

\* T[N] = v by an operator[] that also calls invalidate_iterators()
WriteIndex_invalidates(t, N, v) ==
  /\ Running
  /\ alive[t]
  /\ writes < MaxWrites
  /\ \E r \in OperatorIndex(t, N) :
       /\ res' = Result("operator[]=", t, <<N>>, r.outcome, <<v>>)
       /\ heap' = StoreThrough(t, N, v, r.outcome)
  /\ writes' = writes + 1
  /\ m_Version' = [m_Version EXCEPT ![t] = invalidate_iterators(@)]
  /\ UNCHANGED <<alive, m_DimensionsData, m_Data, m_Size, others>>

\* T[N] = v
WriteIndex(t, N, v) ==
  /\ Running
  /\ alive[t]
  /\ writes < MaxWrites
  /\ \E r \in OperatorIndex(t, N) :
       /\ res' = Result("operator[]=", t, <<N>>, r.outcome, <<v>>)
       /\ heap' = StoreThrough(t, N, v, r.outcome)
  /\ writes' = writes + 1
  /\ UNCHANGED <<alive, m_DimensionsData, m_Data, m_Size, m_Version, others>>

\* x = T.at(dims), x = T(dims)
At(t, dims) ==
  /\ Running
  /\ alive[t]
  /\ \E r \in at(t, dims) :
       res' = Result("at", t, dims, r.outcome, r.value)
  /\ UNCHANGED <<alive, m_DimensionsData, m_Data, heap, m_Size, m_Version, writes, others>>

\* T.at(dims) = v, T(dims) = v
WriteAt(t, dims, v) ==
  /\ Running
  /\ alive[t]
  /\ writes < MaxWrites
  /\ \E r \in at(t, dims) :
       /\ res' = Result("at=", t, dims, r.outcome, <<v>>)
       /\ heap' = StoreThrough(t, calculateIndex(dims, m_DimensionsData[t]).index,
                               v, r.outcome)
  /\ writes' = writes + 1
  /\ UNCHANGED <<alive, m_DimensionsData, m_Data, m_Size, m_Version, others>>

(* ------------------------------ iterators ----------------------------- *)

\* Iterator(p_Tensor, p_Idx, p_Version) and ConstIterator(...)
NewIterator(kind, p_Tensor, p_Idx, p_Version) ==
  [kind |-> kind, m_TensorPtr |-> p_Tensor, m_Index |-> p_Idx, m_Version |-> p_Version]

\* begin(), end() hand out an Iterator; cbegin(), cend() and the const
\* overloads of begin(), end() a ConstIterator
Endpoint(i, t, how) ==
  /\ Running
  /\ alive[t]
  /\ iters' = [iters EXCEPT ![i] =
       NewIterator(IF how \in {"begin", "end"} THEN "Iterator" ELSE "ConstIterator",
                   t,
                   IF how \in {"begin", "cbegin"} THEN 0 ELSE size(t),
                   m_Version[t])]
  /\ res' = Result(how, t, <<i>>, "ok", <<>>)
  /\ UNCHANGED <<alive, m_DimensionsData, m_Data, heap, m_Size, m_Version, writes,
                 m_Mutex, thr, hist>>

\* test_for_invalidation() of Iterator and of ConstIterator: does it throw
test_for_invalidation(it) ==
  m_Version[it.m_TensorPtr] # it.m_Version

\* Iterator::operator*(): the version test, then (*m_TensorPtr)[m_Index]
IteratorDeref(it) ==
  IF test_for_invalidation(it)
  THEN {[outcome |-> "IteratorInvalidated", value |-> <<>>]}
  ELSE OperatorIndex(it.m_TensorPtr, it.m_Index)

\* Iterator::operator*() const and ConstIterator::operator*() const:
\* (*m_TensorPtr)[m_Index] with no version test
IteratorDerefConst(it) ==
  OperatorIndex(it.m_TensorPtr, it.m_Index)

\* operator->() of Iterator and of ConstIterator: the version test, then
\* &(**this), which is operator*() of the same class
IteratorArrow(it) ==
  IF test_for_invalidation(it)
  THEN {[outcome |-> "IteratorInvalidated", value |-> <<>>]}
  ELSE IF it.kind = "Iterator" THEN IteratorDeref(it) ELSE IteratorDerefConst(it)

\* operator[](n) of Iterator and of ConstIterator: the version test, then
\* *(*this + n) on a temporary of the same class
IteratorSubscript(it, n) ==
  LET temp == [it EXCEPT !.m_Index = it.m_Index + n]
  IN  IF test_for_invalidation(it)
      THEN {[outcome |-> "IteratorInvalidated", value |-> <<>>]}
      ELSE IF it.kind = "Iterator" THEN IteratorDeref(temp) ELSE IteratorDerefConst(temp)

\* the access `how` through iterator it; "*const" is operator*() const of an
\* Iterator reached through a const reference
IteratorAccess(it, how, n) ==
  CASE how = "*"      -> IF it.kind = "Iterator" THEN IteratorDeref(it)
                          ELSE IteratorDerefConst(it)
    [] how = "*const" -> IteratorDerefConst(it)
    [] how = "->"     -> IteratorArrow(it)
    [] how = "[]"     -> IteratorSubscript(it, n)

AccessKinds == {"*", "*const", "->", "[]"}

\* x = *it, x = *std::as_const(it), it->, x = it[n]
Access(i, how, n) ==
  /\ Running
  /\ iters[i].kind # "none"
  /\ alive[iters[i].m_TensorPtr]
  /\ how = "[]" \/ n = 0
  /\ \E r \in IteratorAccess(iters[i], how, n) :
       res' = Result(how, iters[i].m_TensorPtr, <<i, n>>, r.outcome, r.value)
  /\ UNCHANGED <<alive, m_DimensionsData, m_Data, heap, m_Size, m_Version, writes, others>>

\* *it = v through an Iterator: operator*() hands out the T& that is stored to
WriteThrough(i, v) ==
  /\ Running
  /\ iters[i].kind = "Iterator"
  /\ alive[iters[i].m_TensorPtr]
  /\ writes < MaxWrites
  /\ \E r \in IteratorDeref(iters[i]) :
       /\ res' = Result("*=", iters[i].m_TensorPtr, <<i, 0>>, r.outcome, <<v>>)
       /\ heap' = StoreThrough(iters[i].m_TensorPtr, iters[i].m_Index, v, r.outcome)
  /\ writes' = writes + 1
  /\ UNCHANGED <<alive, m_DimensionsData, m_Data, m_Size, m_Version, others>>

\* the call has returned or thrown and the caller goes on to its next
\* statement; a process that faulted has no next statement
Return ==
  /\ res # NoRes
  /\ res.outcome # "crash"
  /\ res' = NoRes
  /\ UNCHANGED <<alive, m_DimensionsData, m_Data, heap, m_Size, m_Version, writes, others>>

Next ==
  \/ Return
  \/ \E t \in Tensors : \E d \in DimSeqs : Construct(t, d)
  \/ \E t, o \in Tensors : CopyConstruct(t, o)
  \/ \E t, o \in Tensors : MoveConstruct(t, o)
  \/ \E t, o \in Tensors : CopyAssign(t, o)
  \/ \E t, o \in Tensors : MoveAssign(t, o)
  \/ \E t \in Tensors : InvalidateIterators(t)
  \/ \E t \in Tensors : Fsize(t)
  \/ \E t \in Tensors : \E N \in FlatIndices : ReadIndex(t, N)
  \/ \E t \in Tensors : \E dims \in CoordSeqs : At(t, dims)

Spec == Init /\ [][Next]_vars

NextStore ==
  \/ Return
  \/ \E t \in Tensors : \E d \in DimSeqs : Construct(t, d)
  \/ \E t, o \in Tensors : CopyConstruct(t, o)
  \/ \E t, o \in Tensors : MoveConstruct(t, o)
  \/ \E t, o \in Tensors : CopyAssign(t, o)
  \/ \E t, o \in Tensors : MoveAssign(t, o)
  \/ \E t \in Tensors : \E N \in FlatIndices : \E v \in Values : WriteIndex(t, N, v)
  \/ \E t \in Tensors : \E dims \in CoordSeqs : At(t, dims)
  \/ \E t \in Tensors : \E dims \in CoordSeqs : \E v \in Values : WriteAt(t, dims, v)

SpecStore == Init /\ [][NextStore]_vars

NextIter ==
  \/ Return
  \/ \E t \in Tensors : \E d \in DimSeqs : Construct(t, d)
  \/ \E t, o \in Tensors : CopyAssign(t, o)
  \/ \E t, o \in Tensors : MoveAssign(t, o)
  \/ \E t \in Tensors : InvalidateIterators(t)
  \/ \E t \in Tensors : Fsize(t)
  \/ \E i \in Iters : \E t \in Tensors :
       \E how \in {"begin", "end", "cbegin", "cend"} : Endpoint(i, t, how)
  \/ \E i \in Iters : \E how \in AccessKinds : \E n \in 0..1 : Access(i, how, n)

SpecIter == Init /\ [][NextIter]_vars

\* one caller: iterators, what invalidates them, and element stores
NextWrite ==
  \/ Return
  \/ \E t \in Tensors : \E d \in DimSeqs : Construct(t, d)
  \/ \E t \in Tensors : InvalidateIterators(t)
  \/ \E i \in Iters : \E t \in Tensors :
       \E how \in {"begin", "end", "cbegin", "cend"} : Endpoint(i, t, how)
  \/ \E t \in Tensors : \E N \in FlatIndices : \E v \in Values : WriteIndex(t, N, v)
  \/ \E t \in Tensors : \E dims \in CoordSeqs : \E v \in Values : WriteAt(t, dims, v)
  \/ \E i \in Iters : \E v \in Values : WriteThrough(i, v)
  \/ \E i \in Iters : \E how \in AccessKinds : \E n \in 0..1 : Access(i, how, n)

SpecWrite == Init /\ [][NextWrite]_vars

(* ------------------- iterator arithmetic and comparison ---------------- *)

\* std::size_t has IndexBits bits and wraps; std::ptrdiff_t is its signed
\* counterpart in two's complement
SizeMod == 2 ^ IndexBits

Sizes == 0..(SizeMod - 1)

Differences == (0 - SizeMod \div 2)..(SizeMod \div 2 - 1)

\* conversion of an integer to std::size_t
ToSize(n) == n % SizeMod

\* conversion of a std::size_t to difference_type
ToDifference(x) == IF x >= SizeMod \div 2 THEN x - SizeMod ELSE x

\* ++m_Index and --m_Index
PreIncrement(it) == [it EXCEPT !.m_Index = ToSize(@ + 1)]

PreDecrement(it) == [it EXCEPT !.m_Index = ToSize(@ - 1)]

\* m_Index += n: n is converted to std::size_t and the sum wraps
PlusAssign(it, n) == [it EXCEPT !.m_Index = ToSize(@ + ToSize(n))]

\* operator-=(n) that adds
MinusAssign_adds(it, n) == [it EXCEPT !.m_Index = ToSize(@ + ToSize(n))]

\* m_Index -= n
MinusAssign(it, n) == [it EXCEPT !.m_Index = ToSize(@ - ToSize(n))]

\* operator-(other) whose std::size_t difference is returned unconverted
Difference_unsigned(a, b) == ToSize(a.m_Index - b.m_Index)

\* operator-(other): m_Index - other.m_Index in std::size_t, returned as
\* difference_type
Difference(a, b) == ToDifference(ToSize(a.m_Index - b.m_Index))

\* operator==: the indices alone
Equal(a, b) == a.m_Index = b.m_Index

\* the defaulted operator<=>: m_TensorPtr, m_Index, m_Version in the order
\* of their declaration, the first that differs decides
ThreeWay(a, b) ==
  LET ka == <<a.m_TensorPtr, a.m_Index, a.m_Version>>
      kb == <<b.m_TensorPtr, b.m_Index, b.m_Version>>
      differ == {k \in 1..3 : ka[k] # kb[k]}
  IN  IF differ = {} THEN "equal"
      ELSE LET k == CHOOSE x \in differ : \A y \in differ : x <= y
           IN  IF ka[k] < kb[k] THEN "less" ELSE "greater"

\* a < b, a > b, a <= b, a >= b are rewritten to (a <=> b) against 0
Ordered(op, a, b) ==
  LET c == ThreeWay(a, b)
  IN  CASE op = "<" -> c = "less"
        [] op = ">" -> c = "greater"
        [] op = "<=" -> c # "greater"
        [] op = ">=" -> c # "less"

\* what a stepping operator returns and what it leaves in *this
Stepped(op, it, n) ==
  CASE op = "++" -> <<PreIncrement(it), PreIncrement(it)>>
    [] op = "++(int)" -> <<it, PreIncrement(it)>>
    [] op = "+=" -> <<PlusAssign(it, n), PlusAssign(it, n)>>
    [] op = "+" -> <<PlusAssign(it, n), it>>
    [] op = "--" -> <<PreDecrement(it), PreDecrement(it)>>
    [] op = "--(int)" -> <<it, PreDecrement(it)>>
    [] op = "-=" -> <<MinusAssign(it, n), MinusAssign(it, n)>>
    [] op = "-" -> <<MinusAssign(it, n), it>>

StepOps == {"++", "++(int)", "+=", "+", "--", "--(int)", "-=", "-"}

OffsetOps == {"+=", "+", "-=", "-"}

OrderOps == {"<", ">", "<=", ">="}

\* the iterators of tensor t there can be: of either class, at any index,
\* with a version of t captured since its construction (fsize() in the
\* constructor has run before any iterator exists)
IteratorsOf(t) ==
  {NewIterator(kind, t, idx, ver) :
     kind \in {"Iterator", "ConstIterator"}, idx \in Sizes,
     ver \in (fsize(m_DimensionsData[t], 0, 0).m_Version)..m_Version[t]}

SameClass(a, b) == a.kind = b.kind

\* a stepping operator applied to an iterator of tensor t
Step(t) ==
  /\ Running
  /\ alive[t]
  /\ \E op \in StepOps : \E it \in IteratorsOf(t) :
       \E n \in (IF op \in OffsetOps THEN Differences ELSE {1}) :
         res' = Result(op, t, <<it, n>>, "ok", Stepped(op, it, n))
  /\ UNCHANGED <<alive, m_DimensionsData, m_Data, heap, m_Size, m_Version, writes, others>>

\* a - b of two iterators of tensor t of the same class
Subtract(t) ==
  /\ Running
  /\ alive[t]
  /\ \E a \in IteratorsOf(t) : \E b \in {x \in IteratorsOf(t) : SameClass(a, x)} :
       res' = Result("difference", t, <<a, b>>, "ok", <<Difference(a, b)>>)
  /\ UNCHANGED <<alive, m_DimensionsData, m_Data, heap, m_Size, m_Version, writes, others>>

\* a == b, a != b, a < b, a > b, a <= b, a >= b of two iterators of tensor t
\* of the same class
Compare(t) ==
  /\ Running
  /\ alive[t]
  /\ \E op \in {"==", "!="} \cup OrderOps :
       \E a \in IteratorsOf(t) : \E b \in {x \in IteratorsOf(t) : SameClass(a, x)} :
         res' = Result(op, t, <<a, b>>, "ok",
                       <<CASE op = "==" -> Equal(a, b)
                           [] op = "!=" -> ~Equal(a, b)
                           [] OTHER -> Ordered(op, a, b)>>)
  /\ UNCHANGED <<alive, m_DimensionsData, m_Data, heap, m_Size, m_Version, writes, others>>

\* one caller, one tensor: what changes its version, and the iterators'
\* arithmetic and comparisons
NextArith ==
  \/ Return
  \/ \E d \in DimSeqs : Construct(1, d)
  \/ InvalidateIterators(1)
  \/ Step(1)
  \/ Subtract(1)
  \/ Compare(1)

SpecArith == Init /\ [][NextArith]_vars

(* ------------------------------ destruction --------------------------- *)

\* the null pointer: no tensor has this address
NullPtr == 0

\* ~Tensor(): the vector frees its buffer; the object's bytes stay where
\* they were until the memory is reused, and no iterator is told
Destroy(t) ==
  /\ Running
  /\ alive[t]
  /\ alive' = [alive EXCEPT ![t] = FALSE]
  /\ m_Data' = [m_Data EXCEPT ![t] = NoBuf]
  /\ heap' = [b \in BufIds |-> IF b = m_Data[t] THEN <<>> ELSE heap[b]]
  /\ res' = Result("~Tensor", t, <<>>, "ok", <<>>)
  /\ UNCHANGED <<m_DimensionsData, m_Size, m_Version, writes, others>>

\* does the access `how` through iterator it start with test_for_invalidation()
TestsVersion(it, how) ==
  how \in {"->", "[]"} \/ (how = "*" /\ it.kind = "Iterator")

\* an access through an iterator whose tensor has been destroyed.
\* test_for_invalidation() reads m_TensorPtr->m_Version and operator[] reads
\* m_Size and m_Data of the dead object: the access faults, or it goes by
\* whatever the memory holds now. "if (!m_TensorPtr)" is the only test for a
\* destroyed tensor, and m_TensorPtr is never reset.
IteratorAccessDestroyed(it, how) ==
  IF it.m_TensorPtr = NullPtr /\ ~TestsVersion(it, how)
  THEN {[outcome |-> "TensorDestroyed", value |-> <<>>]}
  ELSE {[outcome |-> "crash", value |-> <<>>],
        [outcome |-> "IndexOutOfBounds", value |-> <<>>]}
       \cup {[outcome |-> "garbage", value |-> <<v>>] : v \in Values}
       \cup (IF TestsVersion(it, how)
             THEN {[outcome |-> "IteratorInvalidated", value |-> <<>>]}
             ELSE {})

\* x = *it, it->, x = it[n] after the tensor of it was destroyed
AccessDestroyed(i, how, n) ==
  /\ Running
  /\ iters[i].kind # "none"
  /\ ~alive[iters[i].m_TensorPtr]
  /\ how = "[]" \/ n = 0
  /\ \E r \in IteratorAccessDestroyed(iters[i], how) :
       res' = Result(how, iters[i].m_TensorPtr, <<i, n>>, r.outcome, r.value)
  /\ UNCHANGED <<alive, m_DimensionsData, m_Data, heap, m_Size, m_Version, writes, others>>

NextLife ==
  \/ Return
  \/ \E t \in Tensors : \E d \in DimSeqs : Construct(t, d)
  \/ \E t \in Tensors : Destroy(t)
  \/ \E i \in Iters : \E t \in Tensors :
       \E how \in {"begin", "end", "cbegin", "cend"} : Endpoint(i, t, how)
  \/ \E i \in Iters : \E how \in AccessKinds : \E n \in 0..1 : Access(i, how, n)
  \/ \E i \in Iters : \E how \in AccessKinds : \E n \in 0..1 : AccessDestroyed(i, how, n)

SpecLife == Init /\ [][NextLife]_vars

(* ------------------------------- threads ------------------------------ *)

\* a member function has faulted in some thread: the process is gone
Crashed ==
  \E p \in Threads : thr[p].outcome = "crash"

\* thread p is between two statements of its own and has made fewer than
\* n calls
CanCall(p, n) ==
  /\ ~Crashed
  /\ thr[p].pc = "idle"
  /\ thr[p].calls < n

\* thread p as it enters member function op of tensor t
Call(p, op, t) ==
  [Idle EXCEPT !.calls = thr[p].calls + 1, !.op = op, !.t = t]

\* thread p back in its own code
Rest(p) ==
  [Idle EXCEPT !.calls = thr[p].calls]

\* thread p is at statement pc of a member function
In(p, pc) ==
  ~Crashed /\ thr[p].pc = pc

\* std::shared_lock<std::shared_mutex> lock(...): it is granted while no
\* thread holds the mutex exclusively
CanLockShared(mtx) ==
  mtx.exclusive = 0

\* a lock() in the place of the lock_shared(): an exclusive hold
lock_exclusive(mtx, p) ==
  [mtx EXCEPT !.exclusive = p]

lock_shared(mtx, p) ==
  [mtx EXCEPT !.shared[p] = @ + 1]

\* ~shared_lock(), n of them when an exception unwinds n scopes
unlock_shared(mtx, p, n) ==
  [mtx EXCEPT !.shared[p] = @ - n]

\* the threads start on tensors the main thread has constructed with
\* Tensor(d), tensor t in buffer t; `shared` is the set of tensors that exist
InitThreads(shared) ==
  /\ alive = [t \in Tensors |-> t \in shared]
  /\ m_DimensionsData \in [Tensors -> DimSeqs]
  /\ \A t \in Tensors \ shared : m_DimensionsData[t] = [i \in 1..Rank |-> 0]
  /\ m_Size = [t \in Tensors |->
       IF t \in shared THEN fsize(m_DimensionsData[t], 0, 0).m_Size ELSE 0]
  /\ m_Version = [t \in Tensors |->
       IF t \in shared THEN fsize(m_DimensionsData[t], 0, 0).m_Version ELSE 0]
  /\ m_Data = [t \in Tensors |-> IF m_Size[t] = 0 THEN NoBuf ELSE t]
  /\ heap = [b \in BufIds |-> [i \in 1..m_Size[b] |-> 0]]
  /\ writes = 0
  /\ res = NoRes
  /\ iters = [i \in Iters |-> NoIterator]
  /\ m_Mutex = [t \in Tensors |-> Unlocked]
  /\ thr = [p \in Threads |-> Idle]
  /\ hist = NoHist

\* what no step of a thread inside invalidate_iterators() touches
tensorData == <<alive, m_DimensionsData, m_Data, heap, m_Size, writes, res>>

\* invalidate_iterators(): std::shared_lock lock(m_Mutex)
InvalidateEnter(p, t) ==
  /\ CanCall(p, MaxCalls)
  /\ alive[t]
  /\ CanLockShared(m_Mutex[t])
  /\ m_Mutex' = [m_Mutex EXCEPT ![t] = lock_shared(@, p)]
  /\ thr' = [thr EXCEPT ![p] =
       [Call(p, "invalidate_iterators", t) EXCEPT !.pc = "inv_load"]]
  /\ hist' = [hist EXCEPT !.pending[p] =
       {i \in Iters \ {p} : iters[i].kind # "none" /\ iters[i].m_TensorPtr = t}]
  /\ UNCHANGED <<tensorData, m_Version, iters>>

\* m_Version++: the load
InvalidateLoad(p) ==
  /\ In(p, "inv_load")
  /\ thr' = [thr EXCEPT ![p].pc = "inv_store",
                        ![p].version = m_Version[thr[p].t]]
  /\ UNCHANGED <<tensorData, m_Version, iters, m_Mutex, hist>>

\* m_Version++: the store of the loaded value plus one
InvalidateStore(p) ==
  /\ In(p, "inv_store")
  /\ m_Version' = [m_Version EXCEPT ![thr[p].t] = invalidate_iterators(thr[p].version)]
  /\ thr' = [thr EXCEPT ![p].pc = "inv_unlock"]
  /\ UNCHANGED <<tensorData, iters, m_Mutex, hist>>

\* invalidate_iterators(): ~shared_lock() and the return
InvalidateExit(p) ==
  /\ In(p, "inv_unlock")
  /\ m_Mutex' = [m_Mutex EXCEPT ![thr[p].t] = unlock_shared(@, p, 1)]
  /\ thr' = [thr EXCEPT ![p] = Rest(p)]
  /\ hist' = [hist EXCEPT !.pending[p] = {},
                          !.returned = @ \cup hist.pending[p]]
  /\ UNCHANGED <<tensorData, m_Version, iters>>

\* it = T.begin(), it = T.end() in thread p: an Iterator that captures m_Version
Obtain(p, t, how) ==
  /\ CanCall(p, MaxCalls)
  /\ alive[t]
  /\ iters' = [iters EXCEPT ![p] =
       NewIterator("Iterator", t, IF how = "begin" THEN 0 ELSE size(t), m_Version[t])]
  /\ thr' = [thr EXCEPT ![p].calls = @ + 1]
  /\ hist' = [pending  |-> [q \in Threads |-> hist.pending[q] \ {p}],
              returned |-> hist.returned \ {p}]
  /\ UNCHANGED <<tensorData, m_Version, m_Mutex>>

\* one test_for_invalidation() of thread p's iterator inside the access it
\* runs: it throws out of the access, or the access goes on at statement pc
TestThen(p, call, pc) ==
  /\ thr' = [thr EXCEPT ![p] =
       IF test_for_invalidation(iters[p])
       THEN [call EXCEPT !.pc = "returned", !.outcome = "IteratorInvalidated"]
       ELSE [call EXCEPT !.pc = pc]]
  /\ UNCHANGED <<tensorData, m_Version, iters, m_Mutex, hist>>

\* *it, it->, it[n] on the thread's own Iterator: the first statement,
\* test_for_invalidation(). operator* goes on to the element, operator-> and
\* operator[] to operator* of the same class.
DerefEnter(p, how, n) ==
  /\ CanCall(p, MaxCalls)
  /\ iters[p].kind = "Iterator"
  /\ how = "[]" \/ n = 0
  /\ TestThen(p, [Call(p, how, iters[p].m_TensorPtr) EXCEPT
                    !.arg = <<n>>, !.stale = p \in hist.returned],
              IF how = "*" THEN "elem" ELSE "star")

\* operator*() called by operator->() or operator[](): its own
\* test_for_invalidation()
DerefStar(p) ==
  /\ In(p, "star")
  /\ TestThen(p, thr[p], "elem")

\* return (*m_TensorPtr)[m_Index]
DerefElem(p) ==
  /\ In(p, "elem")
  /\ \E r \in OperatorIndex(thr[p].t, iters[p].m_Index + thr[p].arg[1]) :
       thr' = [thr EXCEPT ![p].pc = "returned", ![p].outcome = r.outcome]
  /\ UNCHANGED <<tensorData, m_Version, iters, m_Mutex, hist>>

\* the member function has returned or thrown into thread p's own code
ThreadReturn(p) ==
  /\ In(p, "returned")
  /\ thr' = [thr EXCEPT ![p] = Rest(p)]
  /\ UNCHANGED <<tensorData, m_Version, iters, m_Mutex, hist>>

InitVer == InitThreads({1})

NextVer ==
  \/ \E p \in Threads : \E t \in Tensors : InvalidateEnter(p, t)
  \/ \E p \in Threads : InvalidateLoad(p)
  \/ \E p \in Threads : InvalidateStore(p)
  \/ \E p \in Threads : InvalidateExit(p)
  \/ \E p \in Iters : \E t \in Tensors : \E how \in {"begin", "end"} : Obtain(p, t, how)
  \/ \E p \in Iters : \E how \in {"*", "->", "[]"} : \E n \in 0..1 : DerefEnter(p, how, n)
  \/ \E p \in Iters : DerefStar(p)
  \/ \E p \in Iters : DerefElem(p)
  \/ \E p \in Threads : ThreadReturn(p)

SpecVer == InitVer /\ [][NextVer]_vars

\* what no step of a thread inside at() touches
tensorState == <<alive, m_DimensionsData, m_Data, heap, m_Size, m_Version,
                 writes, res, iters, hist>>

\* thread q is at the statement that assigns the vector of tensor t: as the
\* destination of an assignment, or as the source of a move assignment
WritesData(q, t) ==
  /\ thr[q].pc = "assign_data"
  /\ thr[q].t = t \/ (thr[q].op = "operator=(&&)" /\ thr[q].o = t)

\* thread p uses the vector of tensor t while another thread assigns it
DataRace(p, t) ==
  \E q \in Threads \ {p} : WritesData(q, t)

\* at(dims): std::shared_lock lock(mutex())
AtEnter(p, t, dims) ==
  /\ CanCall(p, MaxLockCalls)
  /\ alive[t]
  /\ CanLockShared(m_Mutex[t])
  /\ m_Mutex' = [m_Mutex EXCEPT ![t] = lock_shared(@, p)]
  /\ thr' = [thr EXCEPT ![p] =
       [Call(p, "at", t) EXCEPT !.pc = "calc_lock", !.arg = dims]]
  /\ UNCHANGED tensorState

\* calculateIndex(dims): std::shared_lock lock(mutex()) on the mutex that
\* at() holds already, then index = 0, multiplier = 1
CalcEnter(p) ==
  /\ In(p, "calc_lock")
  /\ CanLockShared(m_Mutex[thr[p].t])
  /\ m_Mutex' = [m_Mutex EXCEPT ![thr[p].t] = lock_shared(@, p)]
  /\ thr' = [thr EXCEPT ![p].pc = "calc_loop", ![p].i = 0,
                        ![p].index = 0, ![p].multiplier = 1]
  /\ UNCHANGED tensorState

\* one iteration of the loop of calculateIndex: the throw releases both
\* shared_locks on its way out of at()
CalcLoop(p) ==
  /\ In(p, "calc_loop")
  /\ LET t == thr[p].t
         c == thr[p].arg[thr[p].i + 1]
         d == m_DimensionsData[t][thr[p].i + 1]
     IN  IF c >= d
         THEN /\ m_Mutex' = [m_Mutex EXCEPT ![t] = unlock_shared(@, p, 2)]
              /\ thr' = [thr EXCEPT ![p].pc = "returned",
                                    ![p].outcome = "IndexOutOfBounds"]
         ELSE /\ thr' = [thr EXCEPT
                   ![p].pc = IF thr[p].i + 1 = Rank THEN "calc_unlock" ELSE "calc_loop",
                   ![p].i = @ + 1,
                   ![p].index = @ + c * thr[p].multiplier,
                   ![p].multiplier = @ * d]
              /\ UNCHANGED m_Mutex
  /\ UNCHANGED tensorState

\* return index: ~shared_lock() of calculateIndex
CalcExit(p) ==
  /\ In(p, "calc_unlock")
  /\ m_Mutex' = [m_Mutex EXCEPT ![thr[p].t] = unlock_shared(@, p, 1)]
  /\ thr' = [thr EXCEPT ![p].pc = "at_elem"]
  /\ UNCHANGED tensorState

\* return m_Data[index] and ~shared_lock() of at(); a vector that another
\* thread is assigning may be read in any state
AtElem(p) ==
  /\ In(p, "at_elem")
  /\ \E r \in VecSubscript(thr[p].t, thr[p].index)
             \cup (IF DataRace(p, thr[p].t)
                   THEN {[outcome |-> "crash", value |-> <<>>],
                         [outcome |-> "garbage", value |-> <<>>]}
                   ELSE {}) :
       thr' = [thr EXCEPT ![p].pc = "returned", ![p].outcome = r.outcome,
                          ![p].value = r.value]
  /\ m_Mutex' = [m_Mutex EXCEPT ![thr[p].t] = unlock_shared(@, p, 1)]
  /\ UNCHANGED tensorState

\* operator=(p_Other) of tensor t, copy or move (op): std::shared_lock
\* lock(p_Other.mutex())
AssignEnter(p, op, t, o) ==
  /\ CanCall(p, MaxLockCalls)
  /\ alive[t] /\ alive[o]
  /\ CanLockShared(m_Mutex[o])
  /\ m_Mutex' = [m_Mutex EXCEPT ![o] = lock_shared(@, p)]
  /\ thr' = [thr EXCEPT ![p] =
       [Call(p, op, t) EXCEPT !.pc = "assign_dims", !.o = o, !.i = 0]]
  /\ UNCHANGED tensorState

\* m_DimensionsData = p_Other.m_DimensionsData, with or without std::move:
\* std::array copies element i
AssignDims(p) ==
  /\ In(p, "assign_dims")
  /\ m_DimensionsData' = [m_DimensionsData EXCEPT ![thr[p].t][thr[p].i + 1] =
       m_DimensionsData[thr[p].o][thr[p].i + 1]]
  /\ thr' = [thr EXCEPT
       ![p].pc = IF thr[p].i + 1 = Rank THEN "assign_data" ELSE "assign_dims",
       ![p].i = @ + 1]
  /\ UNCHANGED <<alive, m_Data, heap, m_Size, m_Version, writes, res, iters,
                 hist, m_Mutex>>

\* m_Data = p_Other.m_Data or m_Data = std::move(p_Other.m_Data); two
\* threads in the assignment of one vector may corrupt the heap
AssignData(p) ==
  /\ In(p, "assign_data")
  /\ LET t == thr[p].t
         o == thr[p].o
         c == IF thr[p].op = "operator=(&&)" THEN MoveData(t, o) ELSE CopyData(t, o)
     IN  \/ /\ m_Data' = c.m_Data
            /\ heap' = c.heap
            /\ thr' = [thr EXCEPT ![p].pc = "assign_unlock"]
         \/ /\ DataRace(p, t) \/ DataRace(p, o)
            /\ thr' = [thr EXCEPT ![p].pc = "returned", ![p].outcome = "crash"]
            /\ UNCHANGED <<m_Data, heap>>
  /\ UNCHANGED <<alive, m_DimensionsData, m_Size, m_Version, writes, res, iters,
                 hist, m_Mutex>>

\* return *this: ~shared_lock()
AssignExit(p) ==
  /\ In(p, "assign_unlock")
  /\ m_Mutex' = [m_Mutex EXCEPT ![thr[p].o] = unlock_shared(@, p, 1)]
  /\ thr' = [thr EXCEPT ![p] = Rest(p)]
  /\ UNCHANGED tensorState

InitLock == InitThreads(Tensors)

NextLock ==
  \/ \E p \in LockThreads : \E t \in Tensors : \E dims \in CoordSeqs : AtEnter(p, t, dims)
  \/ \E p \in LockThreads : CalcEnter(p)
  \/ \E p \in LockThreads : CalcLoop(p)
  \/ \E p \in LockThreads : CalcExit(p)
  \/ \E p \in LockThreads : AtElem(p)
  \/ \E p \in LockThreads : \E t, o \in Tensors :
       \E op \in {"operator=(const&)", "operator=(&&)"} : AssignEnter(p, op, t, o)
  \/ \E p \in LockThreads : AssignDims(p)
  \/ \E p \in LockThreads : AssignData(p)
  \/ \E p \in LockThreads : AssignExit(p)
  \/ \E p \in LockThreads : ThreadReturn(p)

SpecLock == InitLock /\ [][NextLock]_vars

\* the threads start on one tensor that the main thread has constructed with
\* Tensor(d) and filled with std::iota(T.begin(), T.end(), 0)
InitRead ==
  /\ alive = [t \in Tensors |-> t = 1]
  /\ m_DimensionsData \in [Tensors -> DimSeqs]
  /\ m_DimensionsData[2] = [i \in 1..Rank |-> 0]
  /\ m_Size = [t \in Tensors |->
       IF t = 1 THEN fsize(m_DimensionsData[t], 0, 0).m_Size ELSE 0]
  /\ m_Version = [t \in Tensors |->
       IF t = 1 THEN fsize(m_DimensionsData[t], 0, 0).m_Version ELSE 0]
  /\ m_Data = [t \in Tensors |-> IF m_Size[t] = 0 THEN NoBuf ELSE t]
  /\ heap = [b \in BufIds |-> [i \in 1..m_Size[b] |-> i - 1]]
  /\ writes = 0
  /\ res = NoRes
  /\ iters = [i \in Iters |-> NoIterator]
  /\ m_Mutex = [t \in Tensors |-> Unlocked]
  /\ thr = [p \in Threads |-> Idle]
  /\ hist = NoHist

\* the next statement of thread p inside at()
ReadStep(p) ==
  CalcEnter(p) \/ CalcLoop(p) \/ CalcExit(p) \/ AtElem(p) \/ ThreadReturn(p)

\* threads that only call at(); a thread inside at() is scheduled again
NextRead ==
  \/ \E p \in LockThreads : \E t \in Tensors : \E dims \in CoordSeqs : AtEnter(p, t, dims)
  \/ \E p \in LockThreads : CalcEnter(p)
  \/ \E p \in LockThreads : CalcLoop(p)
  \/ \E p \in LockThreads : CalcExit(p)
  \/ \E p \in LockThreads : AtElem(p)
  \/ \E p \in LockThreads : ThreadReturn(p)

SpecRead ==
  InitRead /\ [][NextRead]_vars /\ \A p \in LockThreads : WF_vars(ReadStep(p))

\* no thread holds mutex mtx in shared mode
NoReaders(mtx) ==
  \A q \in Threads : mtx.shared[q] = 0

\* T.mutex().lock(): the thread is inside lock() until it owns the mutex
MutexLock(p, t) ==
  /\ CanCall(p, MaxLockCalls)
  /\ alive[t]
  /\ thr' = [thr EXCEPT ![p] = [Call(p, "mutex().lock", t) EXCEPT !.pc = "lock_wait"]]
  /\ UNCHANGED <<tensorState, m_Mutex>>

\* lock() of a shared_mutex that takes the mutex in one step once nobody
\* holds it in either mode
MutexAcquire(p) ==
  /\ In(p, "lock_wait")
  /\ m_Mutex[thr[p].t].exclusive = 0
  /\ NoReaders(m_Mutex[thr[p].t])
  /\ m_Mutex' = [m_Mutex EXCEPT ![thr[p].t].exclusive = p]
  /\ thr' = [thr EXCEPT ![p].pc = "locked"]
  /\ UNCHANGED tensorState

\* lock() of a shared_mutex that first marks the mutex as claimed by a
\* writer, which bars every later lock_shared(), and then waits for the
\* shared holds to go
MutexWriteEntered(p) ==
  /\ In(p, "lock_wait")
  /\ m_Mutex[thr[p].t].exclusive = 0
  /\ m_Mutex' = [m_Mutex EXCEPT ![thr[p].t].exclusive = p]
  /\ thr' = [thr EXCEPT ![p].pc = "lock_drain"]
  /\ UNCHANGED tensorState

MutexDrained(p) ==
  /\ In(p, "lock_drain")
  /\ NoReaders(m_Mutex[thr[p].t])
  /\ thr' = [thr EXCEPT ![p].pc = "locked"]
  /\ UNCHANGED <<tensorState, m_Mutex>>

\* T.mutex().unlock()
MutexUnlock(p) ==
  /\ In(p, "locked")
  /\ m_Mutex' = [m_Mutex EXCEPT ![thr[p].t].exclusive = 0]
  /\ thr' = [thr EXCEPT ![p].pc = "returned", ![p].outcome = "ok"]
  /\ UNCHANGED tensorState

\* T.mutex().lock_shared()
MutexLockShared(p, t) ==
  /\ CanCall(p, MaxLockCalls)
  /\ alive[t]
  /\ CanLockShared(m_Mutex[t])
  /\ m_Mutex' = [m_Mutex EXCEPT ![t] = lock_shared(@, p)]
  /\ thr' = [thr EXCEPT ![p] =
       [Call(p, "mutex().lock_shared", t) EXCEPT !.pc = "locked_shared"]]
  /\ UNCHANGED tensorState

\* T.mutex().unlock_shared()
MutexUnlockShared(p) ==
  /\ In(p, "locked_shared")
  /\ m_Mutex' = [m_Mutex EXCEPT ![thr[p].t] = unlock_shared(@, p, 1)]
  /\ thr' = [thr EXCEPT ![p].pc = "returned", ![p].outcome = "ok"]
  /\ UNCHANGED tensorState

\* the next statement of thread p inside at() or between the lock and the
\* unlock of the mutex
HoldStep(p) ==
  \/ ReadStep(p)
  \/ MutexAcquire(p) \/ MutexWriteEntered(p) \/ MutexDrained(p)
  \/ MutexUnlock(p) \/ MutexUnlockShared(p)

\* threads that call at() on one tensor or take its mutex through mutex();
\* a thread that can go on is scheduled again
NextHold ==
  \/ \E p \in LockThreads : \E t \in Tensors : \E dims \in CoordSeqs : AtEnter(p, t, dims)
  \/ \E p \in LockThreads : CalcEnter(p)
  \/ \E p \in LockThreads : CalcLoop(p)
  \/ \E p \in LockThreads : CalcExit(p)
  \/ \E p \in LockThreads : AtElem(p)
  \/ \E p \in LockThreads : \E t \in Tensors : MutexLock(p, t)
  \/ \E p \in LockThreads : MutexAcquire(p)
  \/ \E p \in LockThreads : MutexWriteEntered(p)
  \/ \E p \in LockThreads : MutexDrained(p)
  \/ \E p \in LockThreads : MutexUnlock(p)
  \/ \E p \in LockThreads : \E t \in Tensors : MutexLockShared(p, t)
  \/ \E p \in LockThreads : MutexUnlockShared(p)
  \/ \E p \in LockThreads : ThreadReturn(p)

SpecHold ==
  InitRead /\ [][NextHold]_vars /\ \A p \in LockThreads : WF_vars(HoldStep(p))

\* threads that call invalidate_iterators() and at() on one tensor
NextBump ==
  \/ \E p \in LockThreads : \E t \in Tensors : InvalidateEnter(p, t)
  \/ \E p \in LockThreads : InvalidateLoad(p)
  \/ \E p \in LockThreads : InvalidateStore(p)
  \/ \E p \in LockThreads : InvalidateExit(p)
  \/ \E p \in LockThreads : \E t \in Tensors : \E dims \in CoordSeqs : AtEnter(p, t, dims)
  \/ \E p \in LockThreads : CalcEnter(p)
  \/ \E p \in LockThreads : CalcLoop(p)
  \/ \E p \in LockThreads : CalcExit(p)
  \/ \E p \in LockThreads : AtElem(p)
  \/ \E p \in LockThreads : ThreadReturn(p)

SpecBump == InitVer /\ [][NextBump]_vars

(* ====================== the specification's notions =================== *)

RECURSIVE Product(_)
\* product(d): the product of all entries of d
Product(d) ==
  IF d = <<>> THEN 1 ELSE Head(d) * Product(Tail(d))

\* the entries of d before position i (1-based)
Before(d, i) ==
  SubSeq(d, 1, i - 1)

RECURSIVE OffsetFrom(_, _, _)
\* sum over j >= i of c[j] * product(d[k] for k < j)
OffsetFrom(c, d, i) ==
  IF i > Len(c) THEN 0
  ELSE c[i] * Product(Before(d, i)) + OffsetFrom(c, d, i + 1)

\* offset(c): stride(i) is the product of the dimensions before i
Offset(c, d) ==
  OffsetFrom(c, d, 1)

\* c[i] < d[i] for every i
InShape(c, d) ==
  \A i \in 1..Rank : c[i] < d[i]

\* the frame of an access: everything of every tensor but its elements
Shape == <<alive, m_DimensionsData, m_Data, m_Size, m_Version>>

\* thread p's access through its iterator has returned or thrown, and it
\* started when an invalidate_iterators() call of another thread, begun after
\* p obtained the iterator, had returned
StaleAccessDone(p) ==
  /\ thr[p].pc = "returned"
  /\ thr[p].op \in {"*", "->", "[]"}
  /\ thr[p].stale

\* thread p is writing the dimensions or the storage of tensor t: it is
\* between the lock and the unlock of an assignment whose destination is t,
\* or at the vector assignment of a move assignment whose source is t
Writing(p, t) ==
  \/ thr[p].pc \in {"assign_dims", "assign_data"} /\ thr[p].t = t
  \/ WritesData(p, t)

\* thread p is inside at() on tensor t and holds its shared lock
InsideAt(p, t) ==
  /\ thr[p].op = "at" /\ thr[p].t = t
  /\ thr[p].pc \in {"calc_lock", "calc_loop", "calc_unlock", "at_elem"}
  /\ m_Mutex[t].shared[p] > 0

\* thread p is inside the read-increment-write of tensor t's version
Bumping(p, t) ==
  thr[p].pc \in {"inv_load", "inv_store"} /\ thr[p].t = t

\* iterator i exists and the version it captured is not its tensor's version
Stale(i) ==
  iters[i].kind # "none" /\ iters[i].m_Version # m_Version[iters[i].m_TensorPtr]

\* iterator it captured a version that its tensor has left behind
StaleIterator(it) == it.m_Version # m_Version[it.m_TensorPtr]

\* x is iterator it moved to index idx: class, tensor and captured version
\* are those of it
MovedTo(x, it, idx) == x = [it EXCEPT !.m_Index = idx]

\* what the operator of result r gives when only the operands' indices are
\* read and, for a stepping operator, only the index is changed
ByIndexAlone(r) ==
  LET a == r.arg[1]
      i == a.m_Index
  IN  IF r.op \in StepOps
      THEN LET n == r.arg[2]
               to == CASE r.op \in {"++", "++(int)"} -> ToSize(i + 1)
                       [] r.op \in {"--", "--(int)"} -> ToSize(i - 1)
                       [] r.op \in {"+=", "+"} -> ToSize(i + n)
                       [] r.op \in {"-=", "-"} -> ToSize(i - n)
           IN  /\ MovedTo(r.value[1], a, IF r.op \in {"++(int)", "--(int)"} THEN i ELSE to)
               /\ MovedTo(r.value[2], a, IF r.op \in {"+", "-"} THEN i ELSE to)
      ELSE LET j == r.arg[2].m_Index
           IN  r.value[1] = CASE r.op = "difference" -> ToDifference(ToSize(i - j))
                              [] r.op = "==" -> i = j
                              [] r.op = "!=" -> i # j
                              [] r.op = "<" -> i < j
                              [] r.op = ">" -> i > j
                              [] r.op = "<=" -> i <= j
                              [] r.op = ">=" -> i >= j

\* index i is a position that difference_type can hold: every position of
\* a tensor, from begin() to end(), is one
Position(i) == i < SizeMod \div 2

(* ------------------------------- claims ------------------------------- *)

\* C1: at(c) with every c[i] < d[i] returns the element in flat slot
\* offset(c) = sum of c[i] * product(d[j], j < i), on every tensor.
C1_AtReturnsOffsetSlot ==
  (res.op = "at" /\ InShape(res.arg, m_DimensionsData[res.t]))
    => LET o == Offset(res.arg, m_DimensionsData[res.t])
       IN  /\ res.outcome = "ok"
           /\ o < Len(Elems(res.t))
           /\ res.value = <<Elems(res.t)[o + 1]>>

\* C2: a tensor freshly constructed from d has size() = product(d),
\* dimensions() = d and a storage of exactly product(d) elements, also when
\* d has a zero entry.
C2_FreshConstruction ==
  res.op = "Tensor"
    => /\ size(res.t) = Product(res.arg)
       /\ m_DimensionsData[res.t] = res.arg
       /\ Len(Elems(res.t)) = Product(res.arg)

\* C2 happens: a tensor with a zero dimension has just been constructed
\* beside one that holds elements.
C2_Witness ==
  /\ res.op = "Tensor"
  /\ \E i \in 1..Rank : res.arg[i] = 0
  /\ \E i \in 1..Rank : res.arg[i] > 1
  /\ \E t \in Tensors : alive[t] /\ Len(Elems(t)) > 1

\* C3: size() = product(dimensions()) right after every operation that sets
\* the dimensions: construction, copy and move construction, copy and move
\* assignment.
C3_SizeIsProductAfterShapeChange ==
  res.op \in {"Tensor", "Tensor(const&)", "Tensor(&&)",
              "operator=(const&)", "operator=(&&)"}
    => size(res.t) = Product(m_DimensionsData[res.t])

\* C4: operator[](n) throws IndexOutOfBounds for every n >= size(), n = size()
\* included, and returns flat slot n for every n < size().
C4_FlatIndexBounds ==
  res.op = "operator[]"
    => IF res.arg[1] >= size(res.t)
       THEN res.outcome = "IndexOutOfBounds"
       ELSE /\ res.outcome = "ok"
            /\ res.arg[1] < Len(Elems(res.t))
            /\ res.value = <<Elems(res.t)[res.arg[1] + 1]>>

\* C5: at(c) with some c[i] >= dimensions[i] throws IndexOutOfBounds, returns
\* no element and leaves dimensions, storage, size and version unchanged,
\* whether the caller wanted to read or to store through the reference.
C5_AtOutOfShapeThrows ==
  [][(/\ res'.op \in {"at", "at="}
      /\ ~InShape(res'.arg, m_DimensionsData[res'.t]))
       => /\ res'.outcome = "IndexOutOfBounds"
          /\ UNCHANGED <<Shape, heap>>]_vars

\* C5 happens: at() has thrown on a coordinate equal to its dimension, on a
\* tensor that holds elements, for a caller that wanted to store.
C5_Witness ==
  /\ res.op = "at="
  /\ res.outcome = "IndexOutOfBounds"
  /\ \E i \in 1..Rank : res.arg[i] = m_DimensionsData[res.t][i]
  /\ Len(Elems(res.t)) > 1

\* C6: every operator*, operator-> and operator[] through an Iterator or a
\* ConstIterator whose captured version differs from the tensor's version
\* throws IteratorInvalidated and returns no element.
C6_StaleAccessThrows ==
  (/\ res.op \in AccessKinds
   /\ iters[res.arg[1]].m_Version # m_Version[iters[res.arg[1]].m_TensorPtr])
    => res.outcome = "IteratorInvalidated"

\* C7: copy or move assignment into T from a tensor of another shape
\* (product of dimensions) leaves T with a greater version than before.
C7_AssignmentBumpsVersion ==
  [][(/\ res'.op \in {"operator=(const&)", "operator=(&&)"}
      /\ Product(m_DimensionsData[res'.arg[1]]) # Product(m_DimensionsData[res'.t]))
       => m_Version'[res'.t] > m_Version[res'.t]]_vars

\* C8: thread B holds an Iterator from begin()/end(), thread A then calls
\* invalidate_iterators() on the tensor; every access through the iterator
\* that B starts after A's call has returned throws IteratorInvalidated,
\* whatever the threads' interleaving.
C8_StaleAcrossThreads ==
  \A p \in Threads : StaleAccessDone(p) => thr[p].outcome = "IteratorInvalidated"

\* C10: a thread that is writing a tensor's dimensions or storage, as the
\* destination of an assignment or the source of a move assignment, holds
\* that tensor's lock exclusively; no other thread is inside at() on the
\* tensor or writing it at the same time.
C10_WritersHoldExclusive ==
  \A p \in Threads : \A t \in Tensors :
    Writing(p, t)
      => /\ m_Mutex[t].exclusive = p
         /\ \A q \in Threads \ {p} : ~InsideAt(q, t) /\ ~Writing(q, t)

\* C11: while a thread is inside the read-increment-write of a tensor's
\* version in invalidate_iterators(), it holds the tensor's lock exclusively:
\* no other thread is inside the same increment and no thread holds the lock
\* in shared mode.
C11_BumpUnderExclusiveHold ==
  \A p \in Threads : \A t \in Tensors :
    Bumping(p, t)
      => /\ m_Mutex[t].exclusive = p
         /\ \A q \in Threads \ {p} : ~Bumping(q, t)
         /\ \A q \in Threads : m_Mutex[t].shared[q] = 0

\* C12: no step of any thread lowers the version of a tensor, and an
\* iterator that is stale stays stale for as long as it is not reassigned.
C12_VersionNeverDecreases ==
  [][/\ \A t \in Tensors : m_Version'[t] >= m_Version[t]
     /\ \A i \in Iters : (Stale(i) /\ iters'[i] = iters[i]) => Stale(i)']_vars

\* C13: threads that call at() on one tensor that nobody mutates: every call
\* that has returned gave the element at offset(c), or IndexOutOfBounds for c
\* out of shape, as a sequential call does; no step changes the tensor; and
\* every call that has started returns.
C13_ConcurrentReaders ==
  /\ [](\A p \in LockThreads :
          (thr[p].pc = "returned" /\ thr[p].op = "at")
            => IF InShape(thr[p].arg, m_DimensionsData[thr[p].t])
               THEN /\ thr[p].outcome = "ok"
                    /\ thr[p].value =
                         <<Elems(thr[p].t)[Offset(thr[p].arg, m_DimensionsData[thr[p].t]) + 1]>>
               ELSE thr[p].outcome = "IndexOutOfBounds")
  /\ [][UNCHANGED tensorState]_vars
  /\ \A p \in LockThreads :
       (thr[p].op = "at" /\ thr[p].pc \notin {"idle", "returned"})
         ~> (thr[p].pc = "returned")

\* C13 happens: two threads hold the shared lock of the tensor at once, one
\* of them twice (at() and calculateIndex), on different in-shape coordinates.
C13_Witness ==
  /\ m_Mutex[1].shared[1] = 2 /\ m_Mutex[1].shared[2] >= 1
  /\ InsideAt(1, 1) /\ InsideAt(2, 1)
  /\ InShape(thr[1].arg, m_DimensionsData[1])
  /\ InShape(thr[2].arg, m_DimensionsData[1])
  /\ thr[1].arg # thr[2].arg

\* C14: an access through an iterator whose tensor has been destroyed fails
\* with the error for a destroyed tensor, and so reads nothing of it.
C14_DestroyedTensorDetected ==
  (res.op \in AccessKinds /\ ~alive[res.t]) => res.outcome = "TensorDestroyed"

\* C15: fsize() sets the cached size to product(dimensions) and returns it;
\* it raises the version of its tensor by exactly one when the cached size
\* was another value and leaves it alone when it was the same, so a second
\* fsize() in a row does not raise it; no other tensor changes.
C15_FsizeBumpsOnChangeOnly ==
  [][res'.op = "fsize"
       => LET t == res'.t
              p == Product(m_DimensionsData[t])
          IN  /\ m_Size'[t] = p
              /\ res'.value = <<p>>
              /\ m_Version'[t] = IF m_Size[t] # p THEN m_Version[t] + 1
                                  ELSE m_Version[t]
              /\ fsize(m_DimensionsData'[t], m_Size'[t], m_Version'[t]).m_Version
                   = m_Version'[t]
              /\ \A u \in Tensors \ {t} :
                   m_Version'[u] = m_Version[u] /\ m_Size'[u] = m_Size[u]]_vars

\* C15 happens: fsize() has just raised the version (it is not called on a
\* version of MaxVersion) of a tensor with more than one element.
C15_Witness ==
  /\ res.op = "fsize"
  /\ m_Version[res.t] = MaxVersion
  /\ res.value = <<Product(m_DimensionsData[res.t])>>
  /\ Product(m_DimensionsData[res.t]) > 1

\* C16: a store to an element through operator[], at() or an iterator
\* dereference changes no tensor's dimensions, size or version, and every
\* iterator that was not stale before it is the same iterator, is not stale
\* after it and dereferences with the same outcome as before.
C16_StoresKeepShapeAndVersion ==
  [][res'.op \in {"operator[]=", "at=", "*="}
       => /\ UNCHANGED <<alive, m_DimensionsData, m_Size, m_Version>>
          /\ \A i \in Iters :
               (iters[i].kind # "none" /\ ~Stale(i))
                 => /\ iters'[i] = iters[i]
                    /\ ~Stale(i)'
                    /\ {r.outcome : r \in IteratorAccess(iters[i], "*", 0)}'
                         = {r.outcome : r \in IteratorAccess(iters[i], "*", 0)}]_vars

\* C16 happens: a store through a valid iterator has changed an element of a
\* tensor with more than one element, and the iterator is still valid.
C16_Witness ==
  /\ res.op = "*=" /\ res.outcome = "ok" /\ res.value = <<1>>
  /\ ~Stale(res.arg[1])
  /\ Len(Elems(res.t)) > 1
  /\ Elems(res.t)[iters[res.arg[1]].m_Index + 1] = 1

\* C17: for two iterators a, b of the same tensor and class the ordering is
\* by index alone, whatever versions they captured: a < b iff a's index is
\* below b's, a > b iff it is above, a == b iff the indices are equal (so
\* exactly one of the three holds).
C17_OrderingByIndexAlone ==
  (res.op \in {"==", "<", ">"})
    => LET a == res.arg[1]
           b == res.arg[2]
       IN  res.value[1] = CASE res.op = "==" -> a.m_Index = b.m_Index
                            [] res.op = "<" -> a.m_Index < b.m_Index
                            [] res.op = ">" -> a.m_Index > b.m_Index

\* C18: when the constructor from a dimension sequence has returned, the
\* version of the tensor is 0, whatever the dimensions.
C18_ConstructionKeepsVersionZero ==
  (res.op = "Tensor") => m_Version[res.t] = 0

\* C19: a stepping operator (++, --, +=, -=, +, - by an offset), an iterator
\* difference, an equality or an ordering applied to a stale iterator returns
\* normally, leaves every tensor as it was, and its result is what the
\* indices alone determine: a stepped iterator differs from the operand in
\* its index only, a difference or comparison is that of the indices.
C19_StaleArithmeticByIndexAlone ==
  [][(/\ res'.op \in StepOps \cup {"difference", "==", "!="} \cup OrderOps
      /\ StaleIterator(res'.arg[1]))
       => /\ res'.outcome = "ok"
          /\ UNCHANGED <<alive, m_DimensionsData, m_Data, heap, m_Size, m_Version>>
          /\ ByIndexAlone(res')]_vars

\* C20: for an iterator it at a position and a signed offset n with
\* it's index + n >= 0, it + n and it += n stand at index + n, so that
\* (it + n) - it = n, and (it + n) - n stands at it's index again; for
\* n <= index, it - n stands at index - n.  For two iterators a, b at
\* positions, b - a is the integer difference of their indices, negative
\* exactly when b's index is below a's.
C20_SteppingAndDifferenceAgree ==
  LET a == res.arg[1]
  IN  /\ (res.op \in {"+", "+="} /\ Position(a.m_Index) /\ a.m_Index + res.arg[2] >= 0)
         => LET moved == res.value[1]
            IN  /\ moved.m_Index = a.m_Index + res.arg[2]
                /\ Difference(moved, a) = res.arg[2]
                /\ MinusAssign(moved, res.arg[2]).m_Index = a.m_Index
      /\ (res.op \in {"-", "-="} /\ Position(a.m_Index) /\ a.m_Index - res.arg[2] >= 0)
         => LET moved == res.value[1]
            IN  /\ moved.m_Index = a.m_Index - res.arg[2]
                /\ Difference(a, moved) = res.arg[2]
                /\ PlusAssign(moved, res.arg[2]).m_Index = a.m_Index
      /\ (res.op = "difference" /\ Position(a.m_Index) /\ Position(res.arg[2].m_Index))
         => /\ res.value[1] = a.m_Index - res.arg[2].m_Index
            /\ (res.value[1] < 0) <=> (a.m_Index < res.arg[2].m_Index)

\* C20 happens: the difference of begin() and the iterator at the last
\* position has been taken and is negative.
C20_Witness ==
  /\ res.op = "difference"
  /\ Position(res.arg[1].m_Index) /\ Position(res.arg[2].m_Index)
  /\ res.arg[1].m_Index = 0
  /\ res.arg[2].m_Index = SizeMod \div 2 - 1
  /\ res.value[1] < 0

\* C21: every constructed tensor, a moved-from one included, holds exactly
\* product(dimensions) elements in its storage, and an at(c) that passed the
\* coordinate check has addressed a slot the storage has.
C21_StorageMatchesDimensions ==
  /\ \A t \in Tensors :
       alive[t] => Len(Elems(t)) = Product(m_DimensionsData[t])
  /\ (res.op = "at" /\ res.outcome # "IndexOutOfBounds")
       => Offset(res.arg, m_DimensionsData[res.t]) < Len(Elems(res.t))

\* C22: a thread inside at() eventually returns or throws, whatever the
\* other threads do with the tensor's mutex through mutex(), provided each
\* of them releases what it acquires: the second shared acquisition, made in
\* calculateIndex while at() holds the first, is always granted in the end.
C22_AtReturnsUnderLockers ==
  \A p \in LockThreads :
    (thr[p].op = "at" /\ thr[p].pc # "returned") ~> (thr[p].pc = "returned")

\* C9: a store to an element of one tensor changes no element and no
\* dimension of any other tensor, and no two tensors ever own the same
\* buffer; in particular after one was copied from the other.
C9_DeepCopyIsolation ==
  /\ [](\A t, u \in Tensors :
          (t # u /\ m_Data[t] # NoBuf) => m_Data[t] # m_Data[u])
  /\ [][\A t \in Tensors :
          (/\ res'.op \in {"operator[]=", "at="}
           /\ res'.t = t
           /\ res'.outcome = "ok")
            => \A u \in Tensors \ {t} :
                 /\ Elems(u)' = Elems(u)
                 /\ m_DimensionsData'[u] = m_DimensionsData[u]]_vars

\* C9 happens: tensor 2 was copy-constructed from tensor 1 (its cached size
\* is still 0, both own a buffer), then an element of it was stored, and the
\* two now differ.
C9_Witness ==
  /\ alive[1] /\ alive[2]
  /\ size(2) = 0 /\ m_Data[2] # NoBuf /\ m_Data[1] # NoBuf
  /\ m_DimensionsData[1] = m_DimensionsData[2]
  /\ res.op \in {"operator[]=", "at="} /\ res.t = 2 /\ res.outcome = "ok"
  /\ Elems(1) # Elems(2)
  /\ \A k \in 1..Len(Elems(1)) : Elems(1)[k] = 0
====
